---- MODULE Spec2Model ----
(***************************************************************************)
(* GOD (Grounded Object Data) codec: Marshal, MarshalBeautify, Unmarshal.  *)
(*                                                                         *)
(* A text is a sequence of bytes; a byte is a one-character string (BEL    *)
(* and NUL are names of the bytes 0x07 and 0x00).  A Go type is a tuple    *)
(* whose first element is its reflect.Kind, a Go value is a tuple          *)
(* <<kind, payload>>:                                                      *)
(*   <<"string", bytes>>  <<"int", n>>  <<"float", n>>  <<"bool", b>>      *)
(*   <<"struct", <<field values in declaration order>>>>                   *)
(*   <<"slice", <<elements>>>>      <<"map", <<<<key, value>>, ...>>>>     *)
(*   <<"ptr", <<>>>> (nil) or <<"ptr", <<pointee>>>>                       *)
(*   <<"interface", <<>>>> (nil) or <<"interface", <<dyntype, value>>>>    *)
(* A map's pairs are listed in the iteration order of the run.  Numbers    *)
(* are the whole numbers; a float64 is a whole-valued float.               *)
(***************************************************************************)
EXTENDS Integers, Sequences, FiniteSets, TLC

VARIABLES
    gotype,  \* the Go type of the value encoded and of the variable decoded into
    value,   \* the value handed to Marshal or MarshalBeautify, <<>> when none
    doc,     \* what the texts handed to Unmarshal were written from
    inbox,   \* the texts waiting to be handed to Unmarshal, each a byte sequence
    dest,    \* what a destination variable holds before Unmarshal is called
    log      \* the calls made so far: [fn, data, st, val]

vars == <<gotype, value, doc, inbox, dest, log>>

-----------------------------------------------------------------------------
(* Bytes *)

LF == "\n"
CR == "\r"
TAB == "\t"
SP == " "
DQ == "\""
BS == "\\"
BEL == "BEL"
NUL == "NUL"

Digits == <<"0", "1", "2", "3", "4", "5", "6", "7", "8", "9">>

Upper == <<"A", "B", "C", "D", "E", "F", "G", "H", "I", "J", "K", "L", "M",
           "N", "O", "P", "Q", "R", "S", "T", "U", "V", "W", "X", "Y", "Z">>

Lower == <<"a", "b", "c", "d", "e", "f", "g", "h", "i", "j", "k", "l", "m",
           "n", "o", "p", "q", "r", "s", "t", "u", "v", "w", "x", "y", "z">>

Range(s) == {s[i] : i \in 1..Len(s)}

IndexOf(s, c) == CHOOSE i \in 1..Len(s) : s[i] = c

RECURSIVE Concat(_)
Concat(ss) == IF ss = <<>> THEN <<>> ELSE Head(ss) \o Concat(Tail(ss))

RECURSIVE Repeat(_, _)
Repeat(s, n) == IF n <= 0 THEN <<>> ELSE s \o Repeat(s, n - 1)

\* bytes s[from+1 .. to] (Go's s[from:to])
Slice(s, from, to) == SubSeq(s, from + 1, to)

HasPrefixAt(s, pos, pre) ==
    /\ pos + Len(pre) <= Len(s)
    /\ Slice(s, pos, pos + Len(pre)) = pre

Contains(s, sub) == \E i \in 0..Len(s) : HasPrefixAt(s, i, sub)

\* x := v; F(x): v is computed once, then the statements after it run
Bind(v, F(_)) == CHOOSE r \in {F(x) : x \in {v}} : TRUE

-----------------------------------------------------------------------------
(* Standard library: strings, strconv, fmt *)

ToLowerByte(c) == IF c \in Range(Upper) THEN Lower[IndexOf(Upper, c)] ELSE c

ToLower(s) == [i \in 1..Len(s) |-> ToLowerByte(s[i])]

IsSpaceByte(c) == c \in {SP, LF, CR, TAB}

RECURSIVE TrimLeft(_)
TrimLeft(s) ==
    IF s # <<>> /\ IsSpaceByte(Head(s)) THEN TrimLeft(Tail(s)) ELSE s

RECURSIVE TrimRight(_)
TrimRight(s) ==
    IF s # <<>> /\ IsSpaceByte(s[Len(s)])
    THEN TrimRight(SubSeq(s, 1, Len(s) - 1))
    ELSE s

TrimSpace(s) == TrimRight(TrimLeft(s))

\* strconv.Quote: the escapes Go writes for one byte of the string
QuoteByte(c) ==
    CASE c = DQ  -> <<BS, DQ>>
      [] c = BS  -> <<BS, BS>>
      [] c = LF  -> <<BS, "n">>
      [] c = CR  -> <<BS, "r">>
      [] c = TAB -> <<BS, "t">>
      [] c = BEL -> <<BS, "a">>
      [] OTHER   -> <<c>>

Quote(s) == <<DQ>> \o Concat([i \in 1..Len(s) |-> QuoteByte(s[i])]) \o <<DQ>>

RECURSIVE FormatNat(_)
FormatNat(n) ==
    IF n < 10 THEN <<Digits[n + 1]>>
    ELSE FormatNat(n \div 10) \o <<Digits[(n % 10) + 1]>>

\* fmt.Sprintf("%d", n)
FormatInt(n) == IF n < 0 THEN <<"-">> \o FormatNat(-n) ELSE FormatNat(n)

IsDigits(s) == s # <<>> /\ \A i \in 1..Len(s) : s[i] \in Range(Digits)

RECURSIVE ParseNat(_)
ParseNat(s) ==
    IF s = <<>> THEN 0
    ELSE 10 * ParseNat(SubSeq(s, 1, Len(s) - 1))
            + (IndexOf(Digits, s[Len(s)]) - 1)

\* the decimal texts of whole numbers, which strconv.ParseInt(s, 10, 64) and
\* strconv.ParseFloat(s, 64) both accept: an optional sign and digits
ParseWhole(s) ==
    IF s # <<>> /\ Head(s) \in {"-", "+"}
    THEN IF IsDigits(Tail(s))
         THEN [ok |-> TRUE,
               val |-> IF Head(s) = "-" THEN -ParseNat(Tail(s))
                       ELSE ParseNat(Tail(s))]
         ELSE [ok |-> FALSE, val |-> 0]
    ELSE IF IsDigits(s) THEN [ok |-> TRUE, val |-> ParseNat(s)]
         ELSE [ok |-> FALSE, val |-> 0]

ParseInt(s) == ParseWhole(s)

ParseFloat(s) == ParseWhole(s)

ParseBoolTrue ==
    {<<"1">>, <<"t">>, <<"T">>, <<"T", "R", "U", "E">>,
     <<"t", "r", "u", "e">>, <<"T", "r", "u", "e">>}

ParseBoolFalse ==
    {<<"0">>, <<"f">>, <<"F">>, <<"F", "A", "L", "S", "E">>,
     <<"f", "a", "l", "s", "e">>, <<"F", "a", "l", "s", "e">>}

\* strconv.ParseBool
ParseBool(s) ==
    [ok |-> s \in ParseBoolTrue \cup ParseBoolFalse, val |-> s \in ParseBoolTrue]

-----------------------------------------------------------------------------
(* Go types and values *)

StringT == <<"string">>
IntT == <<"int">>
FloatT == <<"float">>
BoolT == <<"bool">>
InterfaceT == <<"interface">>
ChanT == <<"chan">>
SliceOf(t) == <<"slice", t>>
MapOf(t) == <<"map", t>>
PtrTo(t) == <<"ptr", t>>
StructOf(fields) == <<"struct", fields>>

\* a struct field: <<Go identifier, `god` tag, type>>
Field(name, tag, t) == <<name, tag, t>>

FieldIsExported(f) == f[1][1] \in Range(Upper)

\* the key of a field: its tag, or its lowercased identifier
FieldKey(f) == IF f[2] = <<>> THEN ToLower(f[1]) ELSE f[2]

StringV(s) == <<"string", s>>
IntV(n) == <<"int", n>>
FloatV(n) == <<"float", n>>
BoolV(b) == <<"bool", b>>
StructV(vals) == <<"struct", vals>>
SliceV(elems) == <<"slice", elems>>
MapV(pairs) == <<"map", pairs>>
NilPtr == <<"ptr", <<>>>>
PtrV(v) == <<"ptr", <<v>>>>
NilInterface == <<"interface", <<>>>>
InterfaceV(t, v) == <<"interface", <<t, v>>>>
NilChan == <<"chan", <<>>>>

\* reflect.Zero(t)
RECURSIVE Zero(_)
Zero(t) ==
    CASE t[1] = "string"    -> StringV(<<>>)
      [] t[1] = "int"       -> IntV(0)
      [] t[1] = "float"     -> FloatV(0)
      [] t[1] = "bool"      -> BoolV(FALSE)
      [] t[1] = "struct"    -> StructV([i \in 1..Len(t[2]) |-> Zero(t[2][i][3])])
      [] t[1] = "slice"     -> SliceV(<<>>)
      [] t[1] = "map"       -> MapV(<<>>)
      [] t[1] = "ptr"       -> NilPtr
      [] t[1] = "interface" -> NilInterface
      [] t[1] = "chan"      -> NilChan

-----------------------------------------------------------------------------
(* Encoding *)

\* what an encoder wrote to the builder, and whether it returned an error
Wrote(out) == [out |-> out, err |-> FALSE]

Failed(out) == [out |-> out, err |-> TRUE]

\* an indentation of one tab a level
indentByTab(level) == IF level <= 0 THEN <<>> ELSE Repeat(<<TAB>>, level)

indent(level) == IF level <= 0 THEN <<>> ELSE Repeat(<<SP, SP>>, level)

isZeroValue(v) ==
    CASE v[1] \in {"array", "map", "slice", "string"} -> Len(v[2]) = 0
      [] v[1] = "bool" -> ~v[2]
      [] v[1] \in {"int", "float"} -> v[2] = 0
      [] v[1] \in {"interface", "ptr"} -> v[2] = <<>>
      [] OTHER -> FALSE

encodeString(s) ==
    IF Contains(s, <<LF>>) THEN <<DQ, DQ, DQ>> \o s \o <<DQ, DQ, DQ>>
    ELSE Quote(s)

encodeBool(b) ==
    IF b THEN <<"t", "r", "u", "e">> ELSE <<"f", "a", "l", "s", "e">>

\* fmt.Sprintf("%v", v) of a composite value
RECURSIVE SprintV(_)
SprintElems(vs) ==
    Concat([i \in 1..Len(vs) |->
               (IF i > 1 THEN <<SP>> ELSE <<>>) \o SprintV(vs[i])])
SprintV(v) ==
    CASE v[1] = "string" -> v[2]
      [] v[1] \in {"int", "float"} -> FormatInt(v[2])
      [] v[1] = "bool" -> encodeBool(v[2])
      [] v[1] = "struct" -> <<"{">> \o SprintElems(v[2]) \o <<"}">>
      [] v[1] = "slice" -> <<"[">> \o SprintElems(v[2]) \o <<"]">>
      [] v[1] = "map" ->
            <<"m", "a", "p", "[">>
            \o Concat([i \in 1..Len(v[2]) |->
                          (IF i > 1 THEN <<SP>> ELSE <<>>)
                          \o v[2][i][1] \o <<":">> \o SprintV(v[2][i][2])])
            \o <<"]">>
      [] v[1] = "ptr" ->
            IF v[2] = <<>> THEN <<"<", "n", "i", "l", ">">>
            ELSE <<"0", "x", "c", "0", "0", "0">>
      [] v[1] = "interface" ->
            IF v[2] = <<>> THEN <<"<", "n", "i", "l", ">">>
            ELSE SprintV(v[2][2])

RECURSIVE encodeTableCell(_)
encodeTableCell(v) ==
    CASE v[1] = "string" ->
            IF v[2] = <<>> THEN <<DQ, DQ>> ELSE Quote(v[2])
      [] v[1] \in {"int", "float"} -> FormatInt(v[2])
      [] v[1] = "bool" -> encodeBool(v[2])
      [] v[1] = "ptr" ->
            IF v[2] = <<>> THEN <<BS, "0">> ELSE encodeTableCell(v[2][1])
      [] v[1] = "interface" ->
            IF v[2] = <<>> THEN <<BS, "0">> ELSE encodeTableCell(v[2][2])
      [] OTHER ->
            IF isZeroValue(v) THEN <<BS, "0">> ELSE Quote(SprintV(v))

\* the header of a table: the keys of the exported fields
tableHeaders(fields) ==
    LET exported == SelectSeq(fields, FieldIsExported)
    IN  [i \in 1..Len(exported) |-> FieldKey(exported[i])]

joinComma(names) ==
    Concat([i \in 1..Len(names) |->
               (IF i > 1 THEN <<",">> ELSE <<>>) \o names[i]])

\* one row: the inner loop over the fields, j counting from 0 as in the code
encodeTableRow(fields, vals) ==
    Concat([i \in 1..Len(fields) |->
               IF ~FieldIsExported(fields[i]) THEN <<>>
               ELSE (IF i - 1 > 0 THEN <<",">> ELSE <<>>)
                    \o encodeTableCell(vals[i])])
    \o <<";">>

encodeStructSliceAsTable(elemType, v, compact) ==
    IF Len(v[2]) = 0 THEN Wrote(<<"(", ")">>)
    ELSE Wrote(<<"(">> \o joinComma(tableHeaders(elemType[2])) \o <<":">>
               \o Concat([i \in 1..Len(v[2]) |->
                             encodeTableRow(elemType[2], v[2][i][2])])
               \o <<")">>)

RECURSIVE encodeValue(_, _, _, _)
RECURSIVE encodeStructFields(_, _, _, _, _, _)
RECURSIVE encodeMapEntries(_, _, _, _, _, _)
RECURSIVE encodeListElems(_, _, _, _, _)

encodeStruct(t, v, level, compact) ==
    Bind(encodeStructFields(t[2], v[2], 1, TRUE, level, compact), LAMBDA body :
        IF body.err
        THEN Failed(<<"{">> \o (IF compact THEN <<>> ELSE <<LF>>) \o body.out)
        ELSE Wrote(<<"{">> \o (IF compact THEN <<>> ELSE <<LF>>) \o body.out
                   \o (IF compact THEN <<>> ELSE indent(level - 1))
                   \o <<"}">>))

\* the field loop of encodeStruct from field i on
encodeStructFields(fields, vals, i, first, level, compact) ==
    IF i > Len(fields) THEN Wrote(<<>>)
    ELSE IF ~FieldIsExported(fields[i])
    THEN encodeStructFields(fields, vals, i + 1, first, level, compact)
    ELSE
      LET pre == (IF ~first /\ compact THEN <<";">> ELSE <<>>)
                 \o (IF compact THEN <<>> ELSE indent(level))
                 \o FieldKey(fields[i]) \o <<"=">>
          end == IF compact THEN <<>> ELSE <<";", LF>>
      IN  Bind(IF isZeroValue(vals[i]) THEN Wrote(<<>>)
               ELSE encodeValue(fields[i][3], vals[i], level + 1, compact),
               LAMBDA e :
          IF e.err THEN Failed(pre \o e.out)
          ELSE Bind(encodeStructFields(fields, vals, i + 1, FALSE, level, compact),
                    LAMBDA rest :
                   [out |-> pre \o e.out \o end \o rest.out, err |-> rest.err]))

encodeMap(t, v, level, compact) ==
    Bind(encodeMapEntries(t[2], v[2], 1, TRUE, level, compact), LAMBDA body :
        IF body.err
        THEN Failed(<<"{">> \o (IF compact THEN <<>> ELSE <<LF>>) \o body.out)
        ELSE Wrote(<<"{">> \o (IF compact THEN <<>> ELSE <<LF>>) \o body.out
                   \o (IF compact THEN <<>> ELSE indent(level - 1))
                   \o <<"}">>))

\* the key loop of encodeMap from the i-th key of the iteration on
encodeMapEntries(valType, pairs, i, first, level, compact) ==
    IF i > Len(pairs) THEN Wrote(<<>>)
    ELSE
      LET pre == (IF ~first /\ compact THEN <<";">> ELSE <<>>)
                 \o (IF compact THEN <<>> ELSE indent(level))
                 \o pairs[i][1] \o <<"=">>
          end == IF compact THEN <<>> ELSE <<";", LF>>
      IN  Bind(IF isZeroValue(pairs[i][2])
                  \/ (pairs[i][2][1] = "interface" /\ pairs[i][2][2] = <<>>)
               THEN Wrote(<<>>)
               ELSE encodeValue(valType, pairs[i][2], level + 1, compact),
               LAMBDA e :
          IF e.err THEN Failed(pre \o e.out)
          ELSE Bind(encodeMapEntries(valType, pairs, i + 1, FALSE, level, compact),
                    LAMBDA rest :
                   [out |-> pre \o e.out \o end \o rest.out, err |-> rest.err]))

\* the element loop of encodeSlice from element i on, i - 1 the code's index
encodeListElems(elemType, elems, i, level, compact) ==
    IF i > Len(elems) THEN Wrote(<<>>)
    ELSE
      Bind(encodeValue(elemType, elems[i], level, compact), LAMBDA e :
          IF e.err THEN Failed((IF i - 1 > 0 THEN <<",">> ELSE <<>>) \o e.out)
          ELSE Bind(encodeListElems(elemType, elems, i + 1, level, compact),
                    LAMBDA rest :
                   [out |-> (IF i - 1 > 0 THEN <<",">> ELSE <<>>)
                            \o e.out \o rest.out,
                    err |-> rest.err]))

encodeSlice(t, v, level, compact) ==
    IF Len(v[2]) = 0 THEN Wrote(<<"[", "]">>)
    ELSE IF t[2][1] = "struct" THEN encodeStructSliceAsTable(t[2], v, compact)
    ELSE Bind(encodeListElems(t[2], v[2], 1, level, compact), LAMBDA body :
             IF body.err THEN Failed(<<"[">> \o body.out)
             ELSE Wrote(<<"[">> \o body.out \o <<"]">>))

\* the switch of encodeValue, on the kind of the (dereferenced) value
encodeKind(t, v, level, compact) ==
    CASE v[1] = "struct" -> encodeStruct(t, v, level, compact)
      [] v[1] = "map" -> encodeMap(t, v, level, compact)
      [] v[1] = "slice" -> encodeSlice(t, v, level, compact)
      [] v[1] = "string" -> Wrote(encodeString(v[2]))
      [] v[1] \in {"int", "float"} -> Wrote(FormatInt(v[2]))
      [] v[1] = "bool" -> Wrote(encodeBool(v[2]))
      [] v[1] = "interface" ->
            IF v[2] = <<>> THEN Wrote(<<>>)
            ELSE encodeValue(v[2][1], v[2][2], level, compact)
      [] OTHER -> Failed(<<>>)

encodeValue(t, v, level, compact) ==
    IF v[1] = "ptr"
    THEN IF v[2] = <<>> THEN Wrote(<<>>)
         ELSE encodeKind(t[2], v[2][1], level, compact)
    ELSE encodeKind(t, v, level, compact)

\* an encoder that wraps every value, a record or a mapping too, in braces
marshalWrapAll(t, v, compact) ==
    Bind(encodeValue(t, v, 1, compact), LAMBDA e :
        IF e.err THEN [data |-> <<>>, err |-> TRUE]
        ELSE [data |-> <<"{">> \o (IF compact THEN <<>> ELSE <<LF, SP, SP>>)
                       \o e.out \o (IF compact THEN <<>> ELSE <<LF>>) \o <<"}">>,
              err |-> FALSE])

\* the result of Marshal / MarshalBeautify: the bytes, or an error and no bytes
marshalWithCompact(t, v, compact) ==
    LET isPtr == v[1] = "ptr" /\ v[2] # <<>>
        rt == IF isPtr THEN t[2] ELSE t
        rv == IF isPtr THEN v[2][1] ELSE v
    IN  IF rv[1] \in {"map", "struct"}
        THEN Bind(encodeValue(rt, rv, 0, compact), LAMBDA e :
                 IF e.err THEN [data |-> <<>>, err |-> TRUE]
                 ELSE [data |-> e.out, err |-> FALSE])
        ELSE Bind(encodeValue(rt, rv, 1, compact), LAMBDA e :
                 IF e.err THEN [data |-> <<>>, err |-> TRUE]
                 ELSE [data |-> <<"{">>
                                \o (IF compact THEN <<>> ELSE <<LF, SP, SP>>)
                                \o e.out
                                \o (IF compact THEN <<>> ELSE <<LF>>)
                                \o <<"}">>,
                       err |-> FALSE])

Marshal(t, v) == marshalWithCompact(t, v, TRUE)

MarshalBeautify(t, v) == marshalWithCompact(t, v, FALSE)

-----------------------------------------------------------------------------
(* Parser helpers: the parser is the source and a position, counted from 0 *)

eof(src, pos) == pos >= Len(src)

peek(src, pos) == IF eof(src, pos) THEN NUL ELSE src[pos + 1]

\* a next that advances without looking for the end of the source
nextUnchecked(src, pos) == pos + 1

\* the position after p.next()
next(src, pos) == IF eof(src, pos) THEN pos ELSE pos + 1

RECURSIVE skipSpaces(_, _)
skipSpaces(src, pos) ==
    IF ~eof(src, pos) /\ peek(src, pos) \in {SP, LF, CR, TAB}
    THEN skipSpaces(src, pos + 1)
    ELSE pos

BareDelims ==
    {SP, LF, CR, TAB, "=", ";", "{", "}", "[", "]", "(", ")", ",", ":"}

\* the position at which a scan from pos stops: at a byte of stops, or at the end
RECURSIVE scanUntil(_, _, _)
scanUntil(src, pos, stops) ==
    IF ~eof(src, pos) /\ peek(src, pos) \notin stops
    THEN scanUntil(src, pos + 1, stops)
    ELSE pos

readBareToken(src, pos) ==
    Bind(skipSpaces(src, pos), LAMBDA start :
        Bind(scanUntil(src, start, BareDelims), LAMBDA end :
            [tok |-> TrimSpace(Slice(src, start, end)), pos |-> end]))

readUntilAny(src, pos, seps) ==
    Bind(scanUntil(src, pos, seps), LAMBDA end :
        [tok |-> Slice(src, pos, end), pos |-> end])

peekAhead(src, pos, n) ==
    IF pos + n > Len(src) THEN Slice(src, pos, Len(src))
    ELSE Slice(src, pos, pos + n)

\* the byte an escape \nc stands for in parseString
unescape(nc) ==
    CASE nc = "n" -> LF
      [] nc = "r" -> CR
      [] nc = "t" -> TAB
      [] nc = BS -> BS
      [] nc = DQ -> DQ
      [] OTHER -> nc

\* the loop of parseString, from the byte after the opening quote
RECURSIVE parseStringLoop(_, _, _)
parseStringLoop(src, pos, buf) ==
    IF eof(src, pos) THEN [st |-> "err", pos |-> pos, tok |-> <<>>]
    ELSE LET c == peek(src, pos)
         IN  IF c = BS
             THEN IF eof(src, pos + 1)
                  THEN [st |-> "err", pos |-> pos + 1, tok |-> <<>>]
                  ELSE parseStringLoop(src, pos + 2,
                                       Append(buf, unescape(peek(src, pos + 1))))
             ELSE IF c = DQ
             THEN [st |-> "ok", pos |-> pos + 1, tok |-> buf]
             ELSE parseStringLoop(src, pos + 1, Append(buf, c))

parseString(src, pos) ==
    IF peek(src, pos) # DQ
    THEN [st |-> "err", pos |-> next(src, pos), tok |-> <<>>]
    ELSE parseStringLoop(src, pos + 1, <<>>)

RECURSIVE parseTripleLoop(_, _, _)
parseTripleLoop(src, start, pos) ==
    IF eof(src, pos) THEN [st |-> "err", pos |-> pos, tok |-> <<>>]
    ELSE IF peekAhead(src, pos, 3) = <<DQ, DQ, DQ>>
    THEN [st |-> "ok", pos |-> pos + 3, tok |-> Slice(src, start, pos)]
    ELSE parseTripleLoop(src, start, pos + 1)

parseTripleString(src, pos) ==
    IF peekAhead(src, pos, 3) # <<DQ, DQ, DQ>>
    THEN [st |-> "err", pos |-> pos, tok |-> <<>>]
    ELSE parseTripleLoop(src, pos + 3, pos + 3)

parseStringValue(src, pos) ==
    IF peek(src, pos) = DQ
    THEN IF peekAhead(src, pos, 3) = <<DQ, DQ, DQ>>
         THEN parseTripleString(src, pos)
         ELSE parseString(src, pos)
    ELSE Bind(readBareToken(src, pos), LAMBDA r :
             [st |-> "ok", pos |-> r.pos, tok |-> r.tok])

parseNumber(src, pos) ==
    Bind(readBareToken(src, pos), LAMBDA r :
        Bind(ParseFloat(r.tok), LAMBDA f :
            IF r.tok = <<>> \/ ~f.ok
            THEN [st |-> "err", pos |-> r.pos, num |-> 0]
            ELSE [st |-> "ok", pos |-> r.pos, num |-> f.val]))

parseBool(src, pos) ==
    Bind(readBareToken(src, pos), LAMBDA r :
        IF r.tok = <<"t", "r", "u", "e">>
        THEN [st |-> "ok", pos |-> r.pos, val |-> TRUE]
        ELSE IF r.tok = <<"f", "a", "l", "s", "e">>
        THEN [st |-> "ok", pos |-> r.pos, val |-> FALSE]
        ELSE [st |-> "err", pos |-> r.pos, val |-> FALSE])

\* one of the three depth loops of skipValue: the position it returns at
RECURSIVE skipBalanced(_, _, _, _, _)
skipBalanced(src, pos, open, close, depth) ==
    IF eof(src, pos) THEN pos
    ELSE IF peek(src, pos) = open
    THEN skipBalanced(src, pos + 1, open, close, depth + 1)
    ELSE IF peek(src, pos) = close
    THEN IF depth - 1 = 0 THEN pos + 1
         ELSE skipBalanced(src, pos + 1, open, close, depth - 1)
    ELSE skipBalanced(src, pos + 1, open, close, depth)

\* skipValue never returns an error: the position after the skipped value
skipValue(src, pos0) ==
    Bind(skipSpaces(src, pos0), LAMBDA pos :
        CASE peek(src, pos) = "{" -> skipBalanced(src, pos, "{", "}", 0)
          [] peek(src, pos) = "[" -> skipBalanced(src, pos, "[", "]", 0)
          [] peek(src, pos) = "(" -> skipBalanced(src, pos, "(", ")", 0)
          [] peek(src, pos) = DQ -> parseStringValue(src, pos).pos
          [] OTHER -> readBareToken(src, pos).pos)

-----------------------------------------------------------------------------
(* Decoding.  A decoder returns [st, pos, val]: st is "ok", "err" (an error  *)
(* was returned) or "hang" (the call does not return); val is the target as  *)
(* the call leaves it.  The control flow of every loop reads the position    *)
(* only, so an iteration that ends where it began repeats forever.           *)

Ret(st, pos, val) == [st |-> st, pos |-> pos, val |-> val]

\* fieldMap[key]: the index of the last exported field with this key, or 0
fieldIndex(fields, key) ==
    Bind({i \in 1..Len(fields) :
             FieldIsExported(fields[i]) /\ FieldKey(fields[i]) = key},
         LAMBDA hits :
        IF hits = {} THEN 0 ELSE CHOOSE i \in hits : \A j \in hits : j <= i)

\* strconv.ParseInt, ParseFloat or ParseBool of s, by the kind of the field
parseByKind(t, s) ==
    CASE t[1] = "int" -> ParseInt(s)
      [] t[1] = "float" -> ParseFloat(s)
      [] t[1] = "bool" -> ParseBool(s)

\* the field as setFieldFromString leaves it
setFieldFromString(t, cur, s) ==
    IF s = <<>> THEN [ok |-> TRUE, val |-> cur]
    ELSE IF t[1] = "string" THEN [ok |-> TRUE, val |-> StringV(s)]
    ELSE IF t[1] \in {"int", "float", "bool"}
    THEN Bind(parseByKind(t, s), LAMBDA r :
             [ok |-> r.ok, val |-> IF r.ok THEN <<t[1], r.val>> ELSE cur])
    ELSE [ok |-> FALSE, val |-> cur]

\* SetMapIndex
setMapIndex(pairs, key, val) ==
    IF \E i \in 1..Len(pairs) : pairs[i][1] = key
    THEN [i \in 1..Len(pairs) |->
             IF pairs[i][1] = key THEN <<key, val>> ELSE pairs[i]]
    ELSE Append(pairs, <<key, val>>)

\* p.skipSpaces(); if p.peek() == c { p.next() }: the position after it
skipOptional(src, pos, c) ==
    Bind(skipSpaces(src, pos), LAMBDA p1 :
        IF peek(src, p1) = c THEN p1 + 1 ELSE p1)

\* the header loop of decodeTable
RECURSIVE decodeTableHeader(_, _, _)
decodeTableHeader(src, pos0, headers) ==
    Bind(skipSpaces(src, pos0), LAMBDA pos :
        IF peek(src, pos) = ":"
        THEN [st |-> "ok", pos |-> pos + 1, headers |-> headers]
        ELSE IF peek(src, pos) = ")"
        THEN [st |-> "empty", pos |-> pos + 1, headers |-> headers]
        ELSE Bind(readUntilAny(src, pos, {",", ":"}), LAMBDA r :
             Bind(skipOptional(src, r.pos, ","), LAMBDA p2 :
                 IF p2 = pos0
                 THEN [st |-> "hang", pos |-> p2, headers |-> headers]
                 ELSE decodeTableHeader(
                          src, p2,
                          IF TrimSpace(r.tok) # <<>>
                          THEN Append(headers, TrimSpace(r.tok))
                          ELSE headers))))

\* the text of the cell at pos: [st, pos, tok]
readCell(src, pos) ==
    IF peek(src, pos) = DQ THEN parseStringValue(src, pos)
    ELSE Bind(readUntilAny(src, pos, {",", ";", ")"}), LAMBDA b :
             [st |-> "ok", pos |-> b.pos, tok |-> TrimSpace(b.tok)])

\* a decoder that takes cell i for the i-th field, whatever the header says
cellFieldByDeclaration(fields, headers, cellIdx) ==
    IF cellIdx < Len(fields) /\ FieldIsExported(fields[cellIdx + 1])
    THEN cellIdx + 1
    ELSE 0

\* the field of the row the cell cellIdx (from 0) is for, or 0
cellField(fields, headers, cellIdx) ==
    IF cellIdx < Len(headers) THEN fieldIndex(fields, headers[cellIdx + 1])
    ELSE 0

\* the cell loop of one row
RECURSIVE decodeTableCells(_, _, _, _, _, _)
decodeTableCells(src, pos0, fields, headers, structVal, cellIdx) ==
    Bind(skipSpaces(src, pos0), LAMBDA pos :
        IF peek(src, pos) = ";" THEN Ret("ok", pos + 1, structVal)
        ELSE IF peek(src, pos) = ")" THEN Ret("ok", pos, structVal)
        ELSE
          Bind(readCell(src, pos), LAMBDA cell :
          IF cell.st # "ok" THEN Ret(cell.st, cell.pos, structVal)
          ELSE
          Bind(cellField(fields, headers, cellIdx), LAMBDA fieldIdx :
          Bind(IF fieldIdx = 0 THEN [ok |-> TRUE, val |-> <<>>]
               ELSE setFieldFromString(fields[fieldIdx][3],
                                       structVal[2][fieldIdx], cell.tok),
               LAMBDA set :
          IF ~set.ok THEN Ret("err", cell.pos, structVal)
          ELSE
          Bind(skipOptional(src, cell.pos, ","), LAMBDA p2 :
          Bind(IF fieldIdx = 0 THEN structVal
               ELSE StructV([structVal[2] EXCEPT ![fieldIdx] = set.val]),
               LAMBDA row :
          IF p2 = pos0 THEN Ret("hang", p2, row)
          ELSE decodeTableCells(src, p2, fields, headers, row,
                                cellIdx + 1)))))))

\* the row loop of decodeTable: val is the slice built so far
RECURSIVE decodeTableRows(_, _, _, _, _)
decodeTableRows(src, pos0, elemType, headers, slice) ==
    Bind(skipSpaces(src, pos0), LAMBDA pos :
        IF peek(src, pos) = ")" THEN Ret("ok", pos + 1, slice)
        ELSE Bind(decodeTableCells(src, pos, elemType[2], headers,
                                   Zero(elemType), 0),
                  LAMBDA r :
                 IF r.st # "ok" THEN Ret(r.st, r.pos, slice)
                 ELSE decodeTableRows(src, r.pos, elemType, headers,
                                      Append(slice, r.val))))

decodeTable(src, pos, t, cur) ==
    IF peek(src, pos) # "(" THEN Ret("err", pos, cur)
    ELSE IF t[2][1] # "struct"
    THEN Ret("err", skipSpaces(src, pos + 1), cur)
    ELSE Bind(decodeTableHeader(src, skipSpaces(src, pos + 1), <<>>), LAMBDA h :
             IF h.st = "empty" THEN Ret("ok", h.pos, cur)
             ELSE IF h.st = "hang" THEN Ret("hang", h.pos, cur)
             ELSE Bind(decodeTableRows(src, h.pos, t[2], h.headers, <<>>),
                       LAMBDA r :
                      IF r.st = "ok" THEN Ret("ok", r.pos, SliceV(r.val))
                      ELSE Ret(r.st, r.pos, cur)))

RECURSIVE decodeValue(_, _, _, _)
RECURSIVE decodeStructLoop(_, _, _, _)
RECURSIVE decodeMapLoop(_, _, _, _)
RECURSIVE decodeSliceLoop(_, _, _, _)

\* the end of a decodeStruct or decodeMap iteration: the optional semicolon
afterPair(src, pos) == skipSpaces(src, skipOptional(src, pos, ";"))

\* the struct with field fieldIdx set to val; unchanged when fieldIdx is 0
withField(cur, fieldIdx, val) ==
    IF fieldIdx = 0 THEN cur ELSE StructV([cur[2] EXCEPT ![fieldIdx] = val])

\* the key loop of decodeStruct
decodeStructLoop(src, pos, t, cur) ==
    IF eof(src, pos) \/ peek(src, pos) = "}" THEN Ret("ok", pos, cur)
    ELSE
      Bind(readBareToken(src, pos), LAMBDA k :
      Bind(skipSpaces(src, k.pos), LAMBDA p1 :
      IF peek(src, p1) # "=" THEN Ret("err", p1, cur)
      ELSE
      Bind(skipSpaces(src, p1 + 1), LAMBDA p2 :
      Bind(fieldIndex(t[2], k.tok), LAMBDA fieldIdx :
      IF peek(src, p2) \in {";", "}"}
      THEN decodeStructLoop(
               src,
               skipSpaces(src, IF peek(src, p2) = ";" THEN p2 + 1 ELSE p2),
               t,
               IF fieldIdx = 0 THEN cur
               ELSE withField(cur, fieldIdx, Zero(t[2][fieldIdx][3])))
      ELSE IF fieldIdx = 0
      THEN decodeStructLoop(src, afterPair(src, skipValue(src, p2)), t, cur)
      ELSE Bind(decodeValue(src, p2, t[2][fieldIdx][3], cur[2][fieldIdx]),
                LAMBDA r :
               IF r.st # "ok"
               THEN Ret(r.st, r.pos, withField(cur, fieldIdx, r.val))
               ELSE decodeStructLoop(src, afterPair(src, r.pos), t,
                                     withField(cur, fieldIdx, r.val)))))))

\* the closing brace or bracket after the loop that returned r
closing(src, r, c) ==
    IF r.st # "ok" THEN r
    ELSE IF peek(src, r.pos) # c THEN Ret("err", r.pos, r.val)
    ELSE Ret("ok", r.pos + 1, r.val)

decodeStruct(src, pos, t, cur) ==
    IF peek(src, pos) # "{" THEN Ret("err", pos, cur)
    ELSE closing(src, decodeStructLoop(src, skipSpaces(src, pos + 1), t, cur),
                 "}")

\* the key loop of decodeMap
decodeMapLoop(src, pos, t, cur) ==
    IF eof(src, pos) \/ peek(src, pos) = "}" THEN Ret("ok", pos, cur)
    ELSE
      Bind(readBareToken(src, pos), LAMBDA k :
      Bind(skipSpaces(src, k.pos), LAMBDA p1 :
      IF k.tok = <<>>
      THEN Bind(IF peek(src, p1) = ";" THEN skipSpaces(src, p1 + 1) ELSE p1,
                LAMBDA p3 :
               IF p3 = pos THEN Ret("hang", pos, cur)
               ELSE decodeMapLoop(src, p3, t, cur))
      ELSE IF peek(src, p1) # "=" THEN Ret("err", p1, cur)
      ELSE
      Bind(skipSpaces(src, p1 + 1), LAMBDA p2 :
      IF peek(src, p2) \in {";", "}"}
      THEN decodeMapLoop(
               src,
               skipSpaces(src, IF peek(src, p2) = ";" THEN p2 + 1 ELSE p2),
               t,
               MapV(setMapIndex(cur[2], k.tok, Zero(t[2]))))
      ELSE Bind(decodeValue(src, p2, t[2], Zero(t[2])), LAMBDA r :
               IF r.st # "ok" THEN Ret(r.st, r.pos, cur)
               ELSE decodeMapLoop(src, afterPair(src, r.pos), t,
                                  MapV(setMapIndex(cur[2], k.tok, r.val)))))))

decodeMap(src, pos, t, cur) ==
    IF peek(src, pos) # "{" THEN Ret("err", pos, cur)
    ELSE closing(src, decodeMapLoop(src, skipSpaces(src, pos + 1), t, cur), "}")

\* the list loop of decodeSlice: cur is the slice built so far
decodeSliceLoop(src, pos, t, cur) ==
    IF eof(src, pos) \/ peek(src, pos) = "]" THEN Ret("ok", pos, cur)
    ELSE Bind(decodeValue(src, pos, t[2], Zero(t[2])), LAMBDA r :
             IF r.st # "ok" THEN Ret(r.st, r.pos, cur)
             ELSE Bind(skipSpaces(src, r.pos), LAMBDA p1 :
                  Bind(IF peek(src, p1) = "," THEN skipSpaces(src, p1 + 1)
                       ELSE p1,
                       LAMBDA p2 :
                      IF p2 = pos THEN Ret("hang", pos, cur)
                      ELSE decodeSliceLoop(src, p2, t, Append(cur, r.val)))))

decodeSlice(src, pos0, t, cur) ==
    Bind(skipSpaces(src, pos0), LAMBDA pos :
        IF peek(src, pos) = "(" THEN decodeTable(src, pos, t, cur)
        ELSE IF peek(src, pos) # "[" THEN Ret("err", pos, cur)
        ELSE Bind(closing(src,
                          decodeSliceLoop(src, skipSpaces(src, pos + 1), t, <<>>),
                          "]"),
                  LAMBDA r :
                 IF r.st # "ok" THEN Ret(r.st, r.pos, cur)
                 ELSE Ret("ok", r.pos, SliceV(r.val))))

MapStringInterface == MapOf(InterfaceT)

\* the value of dynamic type dt a parser returned, as parseGenericValue returns it
generic(r, dt, v) == Ret(r.st, r.pos, <<dt, v>>)

\* the dynamic value parseGenericValue returns: st, pos and val, where val is
\* <<>> for a nil interface{} and <<type, value>> otherwise
parseGenericValue(src, pos0) ==
    Bind(skipSpaces(src, pos0), LAMBDA pos :
        CASE peek(src, pos) = "{" ->
               Bind(decodeMap(src, pos, MapStringInterface, MapV(<<>>)),
                    LAMBDA r : generic(r, MapStringInterface, r.val))
          [] peek(src, pos) = "[" ->
               Bind(decodeSlice(src, pos, SliceOf(InterfaceT), SliceV(<<>>)),
                    LAMBDA r : generic(r, SliceOf(InterfaceT), r.val))
          [] peek(src, pos) = "(" -> Ret("err", pos, <<>>)
          [] peek(src, pos) = DQ ->
               Bind(parseStringValue(src, pos),
                    LAMBDA r : generic(r, StringT, StringV(r.tok)))
          [] peek(src, pos) \in {"t", "f"} ->
               Bind(parseBool(src, pos),
                    LAMBDA r : generic(r, BoolT, BoolV(r.val)))
          [] OTHER ->
               IF pos + 1 < Len(src) /\ src[pos + 1] = BS /\ src[pos + 2] = "0"
               THEN Ret("ok", pos + 2, <<>>)
               ELSE Bind(parseNumber(src, pos),
                         LAMBDA r : generic(r, FloatT, FloatV(r.num))))

\* a scalar target after the parser returned r with the value val
scalar(r, val, cur) == Ret(r.st, r.pos, IF r.st = "ok" THEN val ELSE cur)

decodeValue(src, pos0, t, cur) ==
    Bind(skipSpaces(src, pos0), LAMBDA pos :
        CASE t[1] = "ptr" ->
               Bind(decodeValue(src, pos, t[2],
                                IF cur[2] = <<>> THEN Zero(t[2]) ELSE cur[2][1]),
                    LAMBDA r : Ret(r.st, r.pos, PtrV(r.val)))
          [] t[1] = "struct" -> decodeStruct(src, pos, t, cur)
          [] t[1] = "map" -> decodeMap(src, pos, t, cur)
          [] t[1] = "slice" -> decodeSlice(src, pos, t, cur)
          [] t[1] = "string" ->
               Bind(parseStringValue(src, pos),
                    LAMBDA r : scalar(r, StringV(r.tok), cur))
          [] t[1] = "int" ->
               Bind(parseNumber(src, pos),
                    LAMBDA r : scalar(r, IntV(r.num), cur))
          [] t[1] = "float" ->
               Bind(parseNumber(src, pos),
                    LAMBDA r : scalar(r, FloatV(r.num), cur))
          [] t[1] = "bool" ->
               Bind(parseBool(src, pos),
                    LAMBDA r : scalar(r, BoolV(r.val), cur))
          [] t[1] = "interface" ->
               Bind(parseGenericValue(src, pos), LAMBDA r :
                   IF r.st # "ok" THEN Ret(r.st, r.pos, cur)
                   ELSE IF r.val = <<>> THEN Ret("ok", r.pos, NilInterface)
                   ELSE Ret("ok", r.pos, InterfaceV(r.val[1], r.val[2])))
          [] OTHER -> Ret("err", pos, cur))

\* an Unmarshal without the case of a table under the root
rootStartAtBrace(data, t) == skipSpaces(data, 0)

\* the position decodeValue is called at: after "{" when the target is a slice
\* and the text opens with "{" then "(", else the first non-space byte
rootStart(data, t) ==
    Bind(skipSpaces(data, 0), LAMBDA pos :
        IF t[1] = "slice" /\ peek(data, pos) = "{"
        THEN Bind(skipSpaces(data, next(data, pos)), LAMBDA p1 :
                 IF peek(data, p1) = "(" THEN p1 ELSE pos)
        ELSE pos)

\* an Unmarshal that goes back to the start of the text, not to the saved {
rootCursorFromStart(data, t) ==
    Bind(skipSpaces(data, 0), LAMBDA pos :
        IF t[1] = "slice" /\ peek(data, pos) = "{"
        THEN Bind(skipSpaces(data, next(data, pos)), LAMBDA p1 :
                 <<0, pos, next(data, pos), p1>>
                 \o (IF peek(data, p1) = "(" THEN <<>> ELSE <<0>>))
        ELSE <<0, pos>>)

\* the positions the parser takes in Unmarshal before decodeValue is called:
\* at its creation, after skipSpaces, and for a slice target at {, after the
\* {, after the spaces behind it and, when no ( follows, back at the saved one
rootCursor(data, t) ==
    Bind(skipSpaces(data, 0), LAMBDA pos :
        IF t[1] = "slice" /\ peek(data, pos) = "{"
        THEN Bind(skipSpaces(data, next(data, pos)), LAMBDA p1 :
                 <<0, pos, next(data, pos), p1>>
                 \o (IF peek(data, p1) = "(" THEN <<>> ELSE <<pos>>))
        ELSE <<0, pos>>)

\* an Unmarshal that does not look at what it is handed: it decodes into the
\* variable itself, and into a new one behind a nil pointer
UnmarshalUnchecked(data, at, v) ==
    IF at[1] # "ptr" THEN decodeValue(data, rootStart(data, at), at, v)
    ELSE Bind(decodeValue(data, rootStart(data, at[2]), at[2],
                          IF v[2] = <<>> THEN Zero(at[2]) ELSE v[2][1]),
              LAMBDA r : Ret(r.st, r.pos, PtrV(r.val)))

\* Unmarshal(data, v) with v of type at: the target v points at as the call
\* leaves it
Unmarshal(data, at, v) ==
    IF at[1] # "ptr" \/ v[2] = <<>> THEN Ret("err", 0, v)
    ELSE Bind(decodeValue(data, rootStart(data, at[2]), at[2], v[2][1]),
              LAMBDA r : Ret(r.st, r.pos, PtrV(r.val)))

-----------------------------------------------------------------------------
(* The record types of the tests, and record types with the other field    *)
(* shapes the encoder and decoder dispatch on                               *)

kName == <<"n", "a", "m", "e">>
kAge == <<"a", "g", "e">>
kAddr == <<"a", "d", "d", "r">>

PersonT ==
    StructOf(<<Field(<<"N", "a", "m", "e">>, kName, StringT),
               Field(<<"A", "g", "e">>, kAge, IntT),
               Field(<<"A", "d", "d", "r", "e", "s", "s">>, kAddr, StringT)>>)

CompanyT ==
    StructOf(<<Field(<<"N", "a", "m", "e">>, kName, StringT),
               Field(<<"F", "o", "u", "n", "d", "e", "d">>, <<"f", "o", "u", "n", "d", "e", "d">>, IntT),
               Field(<<"E", "m", "p", "l", "o", "y", "e", "e", "s">>, <<"e", "m", "p", "l", "o", "y", "e", "e", "s">>, SliceOf(PersonT))>>)

ResponseT ==
    StructOf(<<Field(<<"S", "t", "a", "t", "u", "s">>, <<"s", "t", "a", "t", "u", "s">>, IntT),
               Field(<<"R", "e", "q", "u", "e", "s", "t">>, <<"r", "e", "q", "u", "e", "s", "t">>, StringT),
               Field(<<"E", "r", "r", "o", "r">>, <<"e", "r", "r", "o", "r">>, StringT),
               Field(<<"E", "r", "r", "o", "r", "C", "o", "d", "e">>, <<"e", "r", "r", "o", "r", "C", "o", "d", "e">>, StringT),
               Field(<<"D", "a", "t", "a">>, <<"d", "a", "t", "a">>, MapStringInterface)>>)

\* an untagged field and an optional reference to a record
PetT ==
    StructOf(<<Field(<<"N", "a", "m", "e">>, <<>>, StringT),
               Field(<<"O", "w", "n", "e", "r">>, <<"o", "w", "n", "e", "r">>, PtrTo(PersonT))>>)

\* a sequence of records that hold an optional reference
KennelT == StructOf(<<Field(<<"P", "e", "t", "s">>, <<"p", "e", "t", "s">>, SliceOf(PetT))>>)

\* records with an unexported field declared first, in the middle and last
HiddenFirstT ==
    StructOf(<<Field(<<"i", "d">>, <<>>, IntT),
               Field(<<"L", "a", "b", "e", "l">>, <<"l", "a", "b", "e", "l">>, StringT),
               Field(<<"C", "o", "u", "n", "t">>, <<"c", "o", "u", "n", "t">>, IntT)>>)

HiddenMiddleT ==
    StructOf(<<Field(<<"L", "a", "b", "e", "l">>, <<"l", "a", "b", "e", "l">>, StringT),
               Field(<<"i", "d">>, <<>>, IntT),
               Field(<<"C", "o", "u", "n", "t">>, <<"c", "o", "u", "n", "t">>, IntT)>>)

HiddenLastT ==
    StructOf(<<Field(<<"L", "a", "b", "e", "l">>, <<"l", "a", "b", "e", "l">>, StringT),
               Field(<<"C", "o", "u", "n", "t">>, <<"c", "o", "u", "n", "t">>, IntT),
               Field(<<"i", "d">>, <<>>, IntT)>>)

-----------------------------------------------------------------------------
(* The values handed to Marshal and MarshalBeautify *)

MaxRows == 2

SeqsUpTo(S, n) == UNION {[1..k -> S] : k \in 0..n}

sJohn == <<"J", "o", "h", "n">>
sAlice == <<"A", "l", "i", "c", "e">>
sNYC == <<"N", "Y", "C">>
sBoston == <<"B", "o", "s", "t", "o", "n">>
sSpaced == <<"a", SP, "b">>
sTwoLines == <<"x", LF, "y">>
sQuoted == <<"q", DQ, BS>>
sBell == <<"B", BEL>>
sHello == <<"H", "e", "l", "l", "o", SP, "W", "o", "r", "l", "d">>
kKey == <<"k", "e", "y">>
sValue == <<"v", "a", "l", "u", "e">>
sJane == <<"J", "a", "n", "e">>

Person(name, age, addr) == StructV(<<StringV(name), IntV(age), StringV(addr)>>)

People ==
    {Person(n, a, d) :
        n \in {<<>>, sJohn, sSpaced, sTwoLines, sQuoted, sBell},
        a \in {0, 12, -3},
        d \in {<<>>, sNYC}}

PersonPool ==
    {Person(sJohn, 12, <<>>), Person(sAlice, 25, sBoston), Person(<<>>, 0, <<>>),
     Person(sQuoted, -3, sTwoLines), Person(sBell, 30, sNYC)}

Companies ==
    {StructV(<<StringV(n), IntV(f), SliceV(e)>>) :
        n \in {<<>>, sJohn},
        f \in {0, 2020},
        e \in SeqsUpTo({Person(sJohn, 12, <<>>), Person(sAlice, 25, sBoston)},
                       MaxRows)}

kCount == <<"c", "o", "u", "n", "t">>
kMsg == <<"m", "s", "g">>

DataMaps ==
    {MapV(<<>>),
     MapV(<<<<kKey, InterfaceV(StringT, StringV(sValue))>>>>),
     MapV(<<<<kCount, InterfaceV(IntT, IntV(2))>>>>),
     MapV(<<<<kMsg, InterfaceV(StringT, StringV(sJohn))>>>>),
     MapV(<<<<kMsg, InterfaceV(StringT, StringV(<<>>))>>>>),
     MapV(<<<<kMsg, InterfaceV(BoolT, BoolV(TRUE))>>>>),
     MapV(<<<<kCount, NilInterface>>>>),
     MapV(<<<<kCount, InterfaceV(FloatT, FloatV(2))>>,
            <<kMsg, InterfaceV(StringT, StringV(sSpaced))>>>>),
     MapV(<<<<kMsg, InterfaceV(SliceOf(InterfaceT),
                               SliceV(<<InterfaceV(StringT, StringV(sAlice)),
                                        InterfaceV(FloatT, FloatV(7))>>))>>>>),
     MapV(<<<<kMsg, InterfaceV(MapStringInterface,
                               MapV(<<<<kCount,
                                        InterfaceV(FloatT, FloatV(2))>>>>))>>>>)}

Responses ==
    {StructV(<<IntV(st), StringV(rq), StringV(<<>>), StringV(<<>>), d>>) :
        st \in {0, 200}, rq \in {<<>>, sJohn}, d \in DataMaps}

Pets ==
    {StructV(<<StringV(n), o>>) :
        n \in {<<>>, sJohn},
        o \in {NilPtr, PtrV(Person(sAlice, 25, sBoston)),
               PtrV(Person(<<>>, 0, <<>>))}}

Kennels ==
    {StructV(<<SliceV(ps)>>) :
        ps \in SeqsUpTo({StructV(<<StringV(sJohn), NilPtr>>),
                         StructV(<<StringV(sAlice),
                                   PtrV(Person(sJohn, 12, <<>>))>>)},
                        MaxRows)}

HiddenRows ==
    {StructV(<<IntV(7), StringV(sJohn), IntV(12)>>),
     StructV(<<IntV(0), StringV(<<>>), IntV(0)>>)}

\* the same three values laid out for the three types
hiddenAs(t, row) ==
    IF t = HiddenFirstT THEN row
    ELSE IF t = HiddenMiddleT THEN StructV(<<row[2][2], row[2][1], row[2][3]>>)
    ELSE StructV(<<row[2][2], row[2][3], row[2][1]>>)

RecordInputs ==
    {<<PersonT, v>> : v \in People}
    \cup {<<CompanyT, v>> : v \in Companies}
    \cup {<<ResponseT, v>> : v \in Responses}
    \cup {<<PetT, v>> : v \in Pets}
    \cup {<<KennelT, v>> : v \in Kennels}

TableInputs ==
    {<<SliceOf(PersonT), SliceV(rows)>> : rows \in SeqsUpTo(PersonPool, MaxRows)}
    \cup {<<SliceOf(t), SliceV([i \in 1..Len(rows) |-> hiddenAs(t, rows[i])])>> :
             t \in {HiddenFirstT, HiddenMiddleT, HiddenLastT},
             rows \in SeqsUpTo(HiddenRows, MaxRows)}

RootInputs ==
    {<<StringT, StringV(x)>> : x \in {<<>>, sJohn, sHello, sTwoLines, sBell}}
    \cup {<<SliceOf(InterfaceT), SliceV(e)>> :
             e \in SeqsUpTo({InterfaceV(IntT, IntV(10)),
                             InterfaceV(StringT, StringV(sJohn))}, MaxRows)}
    \cup {<<SliceOf(IntT), SliceV(e)>> : e \in SeqsUpTo({IntV(10), IntV(0)}, MaxRows)}
    \cup {<<MapStringInterface, m>> : m \in DataMaps}
    \cup {<<PtrTo(PersonT), PtrV(v)>> : v \in PersonPool}
    \cup {<<PtrTo(PersonT), NilPtr>>, <<ChanT, NilChan>>,
          <<SliceOf(ChanT), SliceV(<<NilChan>>)>>}

Inputs == RecordInputs \cup TableInputs \cup RootInputs

-----------------------------------------------------------------------------
(* The calls *)

NoDoc == [form |-> "none"]

\* a call as the log holds it: the function, the text, the outcome, the value
\* encoded or the target as the call left it, and the positions of the parser
CallAt(fn, data, st, val, cursor) ==
    [fn |-> fn, data |-> data, st |-> st, val |-> val, cursor |-> cursor]

Call(fn, data, st, val) == CallAt(fn, data, st, val, <<>>)

\* encoded, err := Marshal(value)
DoMarshal ==
    /\ value # <<>>
    /\ log = <<>>
    /\ LET r == Marshal(gotype, value)
       IN  /\ log' = <<Call("Marshal", r.data,
                            IF r.err THEN "err" ELSE "ok", value)>>
           /\ inbox' = IF r.err THEN inbox ELSE Append(inbox, r.data)
    /\ UNCHANGED <<gotype, value, doc, dest>>

\* encoded, err := MarshalBeautify(value)
DoMarshalBeautify ==
    /\ value # <<>>
    /\ log = <<>>
    /\ LET r == MarshalBeautify(gotype, value)
       IN  /\ log' = <<Call("MarshalBeautify", r.data,
                            IF r.err THEN "err" ELSE "ok", value)>>
           /\ inbox' = IF r.err THEN inbox ELSE Append(inbox, r.data)
    /\ UNCHANGED <<gotype, value, doc, dest>>

\* var decoded T = dest; err := Unmarshal(text, &decoded)
DoUnmarshal ==
    /\ inbox # <<>>
    /\ log' = Append(log,
                     Bind(Unmarshal(Head(inbox), PtrTo(gotype), PtrV(dest)),
                          LAMBDA r :
                         CallAt("Unmarshal", Head(inbox), r.st, r.val[2][1],
                                rootCursor(Head(inbox), gotype) \o <<r.pos>>)))
    /\ inbox' = Tail(inbox)
    /\ UNCHANGED <<gotype, value, doc, dest>>

\* a value is encoded, compact or indented, and the text decoded into a fresh
\* variable of its type
Init ==
    \E in \in Inputs :
        /\ gotype = in[1]
        /\ value = in[2]
        /\ doc = NoDoc
        /\ inbox = <<>>
        /\ dest = Zero(in[1])
        /\ log = <<>>

Next == DoMarshal \/ DoMarshalBeautify \/ DoUnmarshal

Spec == Init /\ [][Next]_vars

-----------------------------------------------------------------------------
(* Texts written by hand: a table under the root, as in TestPersonSliceDecode *)
(* and testBareTable, and the pairs of a record, as in TestOptionalSemicolon  *)

kZip == <<"z", "i", "p">>

\* a cell or right-hand side with nothing written
NoCell == <<"none", <<>>>>

joinWith(parts, sep) ==
    Concat([i \in 1..Len(parts) |->
               (IF i > 1 THEN sep ELSE <<>>) \o parts[i]])

\* the text of a cell or of a right-hand side: a quoted string, a decimal
writeCell(c) ==
    CASE c[1] = "none" -> <<>>
      [] c[1] = "raw" -> c[2]
      [] c[1] = "string" -> <<DQ>> \o c[2] \o <<DQ>>
      [] c[1] = "int" -> FormatInt(c[2])

TableHeaders ==
    {<<kName, kAge, kAddr>>, <<kAge, kName>>, <<kName, kZip, kAge>>}

\* what a row may hold under a header name, and after the last header name
CellPool(h) ==
    CASE h = kName -> {StringV(sJohn), StringV(<<>>)}
      [] h = kAge -> {NoCell, IntV(12)}
      [] h = kAddr -> {NoCell, StringV(sNYC)}
      [] h = kZip -> {StringV(sBoston)}
      [] OTHER -> {IntV(7)}

\* rows with one cell less than the header, as many, and one more
TableRows(header) ==
    UNION {{r \in [1..k -> UNION {CellPool(h) : h \in {kName, kAge, kAddr, kZip, <<>>}}] :
               \A i \in 1..k :
                   r[i] \in CellPool(IF i <= Len(header) THEN header[i] ELSE <<>>)} :
           k \in (Len(header) - 1)..(Len(header) + 1)}

TableDocs ==
    UNION {{[form |-> "table", header |-> h, rows |-> rs, spaced |-> sp] :
               rs \in SeqsUpTo(TableRows(h), MaxRows), sp \in BOOLEAN} :
           h \in TableHeaders}

\* {(header:row;row;)} written compactly, or with spaces and one row a line
writeTable(d) ==
    LET pad == IF d.spaced THEN <<SP>> ELSE <<>>
        nl == IF d.spaced THEN <<LF, SP, SP>> ELSE <<>>
        comma == pad \o <<",">> \o pad
    IN  <<"{">> \o pad \o <<"(">> \o pad \o joinWith(d.header, comma) \o pad
        \o <<":">>
        \o Concat([n \in 1..Len(d.rows) |->
                      nl \o joinWith([i \in 1..Len(d.rows[n]) |->
                                         writeCell(d.rows[n][i])], comma)
                      \o pad \o <<";">>])
        \o (IF d.spaced THEN <<LF>> ELSE <<>>) \o <<")">> \o pad \o <<"}">>

\* the pairs of a Person in any order, each key at most once, each right-hand
\* side written or left empty
PairDocs ==
    {[form |-> "pairs", pairs |-> ps] :
        ps \in {q \in SeqsUpTo({<<kName, StringV(sJane)>>, <<kName, NoCell>>,
                                <<kAge, IntV(15)>>, <<kAge, NoCell>>,
                                <<kAddr, StringV(sNYC)>>, <<kAddr, NoCell>>},
                               Len(PersonT[2])) :
                   \A i, j \in 1..Len(q) : q[i][1] = q[j][1] => i = j}}

isWritten(pair) == pair[2] # NoCell

writePair(pair) == pair[1] \o <<"=">> \o writeCell(pair[2])

\* the pairs separated by whitespace only
writeSpaced(ps) ==
    <<"{">> \o joinWith([i \in 1..Len(ps) |-> writePair(ps[i])], <<SP>>) \o <<"}">>

\* every pair terminated by a semicolon
writeTerminated(ps) ==
    <<"{">> \o Concat([i \in 1..Len(ps) |-> writePair(ps[i]) \o <<";">>]) \o <<"}">>

\* a table under the root is decoded into a fresh sequence of Person
InitTable ==
    \E d \in TableDocs :
        /\ gotype = SliceOf(PersonT)
        /\ value = <<>>
        /\ doc = d
        /\ inbox = <<writeTable(d)>>
        /\ dest = Zero(SliceOf(PersonT))
        /\ log = <<>>

NextTable == DoUnmarshal

SpecTable == InitTable /\ [][NextTable]_vars

\* the pairs of a record are decoded into a fresh Person four times: separated
\* by whitespace, terminated by semicolons, and both again with the keys whose
\* right-hand side is empty left out
InitPairs ==
    \E d \in PairDocs :
        /\ gotype = PersonT
        /\ value = <<>>
        /\ doc = d
        /\ inbox = <<writeSpaced(d.pairs), writeTerminated(d.pairs),
                     writeSpaced(SelectSeq(d.pairs, isWritten)),
                     writeTerminated(SelectSeq(d.pairs, isWritten))>>
        /\ dest = Zero(PersonT)
        /\ log = <<>>

NextPairs == DoUnmarshal

SpecPairs == InitPairs /\ [][NextPairs]_vars

-----------------------------------------------------------------------------
(* Texts written by hand that are decoded as they stand: a record with a key *)
(* of no field, texts cut short, and boolean tokens                          *)

kActive == <<"a", "c", "t", "i", "v", "e">>

\* a record with a boolean field
FlagT ==
    StructOf(<<Field(<<"N", "a", "m", "e">>, kName, StringT),
               Field(<<"A", "c", "t", "i", "v", "e">>, kActive, BoolT)>>)

\* a right-hand side or cell given as the text to write
Raw(text) == <<"raw", text>>

\* well-formed values of the grammar: a string, a number, a boolean, an
\* object, a list, a table, and an object, a list and a table that hold a
\* string with their own closing or opening delimiter in it
SkipValues ==
    {writeCell(StringV(sBoston)),
     <<"1", "2">>,
     <<"t", "r", "u", "e">>,
     <<"{", "a", "=", "1", ";", "b", "=", "{", "c", "=", "2", "}", "}">>,
     <<"[", "1", ",", "[", "2", ",", "3", "]", "]">>,
     <<"(", "a", ",", "b", ":", "1", ",", "2", ";", "3", ",", "4", ";", ")">>,
     <<"{", "a", "=", DQ, "}", DQ, "}">>,
     <<"{", "a", "=", DQ, "{", DQ, "}">>,
     <<"[", DQ, "]", DQ, "]">>,
     <<"(", "a", ":", DQ, ")", DQ, ";", ")">>}

\* the pairs of a Person, and a pair zip=extra put in after the first at pairs
UnknownDocs ==
    {[form |-> "unknown", pairs |-> ps, at |-> k, extra |-> v] :
        ps \in {<<>>, <<<<kAge, IntV(15)>>>>,
                <<<<kName, StringV(sJane)>>, <<kAge, IntV(15)>>>>},
        k \in 0..Len(PersonT[2]),
        v \in SkipValues}

withExtra(d) ==
    LET k == IF d.at > Len(d.pairs) THEN Len(d.pairs) ELSE d.at
    IN  SubSeq(d.pairs, 1, k) \o <<<<kZip, Raw(d.extra)>>>>
        \o SubSeq(d.pairs, k + 1, Len(d.pairs))

\* complete texts and the types they are decoded into
CutTexts ==
    {<<PersonT, writeTerminated(<<<<kName, StringV(sJane)>>, <<kAge, IntV(15)>>>>)>>,
     <<PersonT,
       <<"{">> \o kName \o <<"=", DQ, DQ, DQ>> \o sTwoLines \o <<DQ, DQ, DQ, SP>>
       \o kAge \o <<"=", "1", "5", "}">>>>,
     <<SliceOf(PersonT),
       writeTable([form |-> "table", header |-> <<kName, kAge>>,
                   rows |-> <<<<StringV(sJohn), IntV(12)>>,
                              <<StringV(sAlice), IntV(25)>>>>,
                   spaced |-> FALSE])>>,
     <<MapStringInterface,
       <<"{">> \o kCount \o <<"=", BS, "0", ";">> \o kMsg
       \o <<"=", "[", DQ, "a", DQ, ",", BS, "0", "]", "}">>>>,
     <<SliceOf(IntT), <<SP, "{", "[", "1", "0", ",", "0", "]", "}">>>>,
     <<SliceOf(IntT), <<"[", "1", "0", ",", "0", "]">>>>}

\* the first keep bytes of a complete text
CutDocs ==
    UNION {{[form |-> "cut", type |-> c[1], full |-> c[2], keep |-> n] :
               n \in 0..Len(c[2])} : c \in CutTexts}

\* strconv.ParseBool's tokens, and tokens that are no boolean
BoolTokens ==
    ParseBoolTrue \cup ParseBoolFalse
    \cup {<<"y", "e", "s">>, <<"n", "o">>, <<"t", "r", "u">>, <<"x">>, <<"2">>}

\* the token as the value of a field of a record, as a cell of a table
BoolDocs ==
    {[form |-> "bool", tok |-> tok, table |-> tb] :
        tok \in BoolTokens, tb \in BOOLEAN}

\* a mapping with the key count given the sentinel \0 and given no right-hand
\* side, alone and after another pair, every pair terminated or the last not
SentinelDocs ==
    {[form |-> "sentinel", before |-> b, terminated |-> tm] :
        b \in {<<>>, <<<<kMsg, StringV(sJohn)>>>>, <<<<kCount, IntV(15)>>>>},
        tm \in BOOLEAN}

\* the elements a sequence of Person holds before a text is decoded into it
HeldRows ==
    {<<>>, <<Person(sBell, 30, sNYC)>>,
     <<Person(sBell, 30, sNYC), Person(sJohn, 12, <<>>)>>}

\* an empty table, a list and a table with rows, each with the elements it
\* holds
RefillTexts ==
    {<<<<"(", ")">>, <<>>>>,
     <<<<"(", SP, ")">>, <<>>>>,
     <<<<"[", "]">>, <<>>>>,
     <<<<"[">> \o writeTerminated(<<<<kName, StringV(sJane)>>,
                                    <<kAge, IntV(15)>>>>) \o <<"]">>,
       <<Person(sJane, 15, <<>>)>>>>,
     <<writeTable([form |-> "table", header |-> <<kName, kAge>>,
                   rows |-> <<<<StringV(sAlice), IntV(25)>>>>,
                   spaced |-> FALSE]),
       <<Person(sAlice, 25, <<>>)>>>>}

\* the texts as the root, and the tables under the root braces as well
RefillDocs ==
    {d \in {[form |-> "refill", held |-> h, text |-> x[1], elems |-> x[2],
             braces |-> b] :
                h \in HeldRows, x \in RefillTexts, b \in BOOLEAN} :
        d.braces => d.text[1] = "("}

\* texts where a loop meets a delimiter it does not expect or the end of the
\* input, and the types they are decoded into
StrayTexts ==
    {<<MapStringInterface, <<"{", ",", "}">>>>,
     <<MapStringInterface, <<"{", "=", "1", "}">>>>,
     <<MapStringInterface, <<"{", ";", ";", "}">>>>,
     <<SliceOf(StringT), <<"[", "}", "]">>>>,
     <<SliceOf(StringT), <<"[", ",", "]">>>>,
     <<SliceOf(IntT), <<"[", "1", ";", "2", "]">>>>,
     <<SliceOf(PersonT), <<"(">> \o kName \o <<";", ")">>>>,
     <<SliceOf(PersonT), <<"(">> \o kName \o <<":", "]", ")">>>>,
     <<SliceOf(PersonT), <<"(">> \o kName \o <<":", DQ, "a", DQ, "}", ";", ")">>>>,
     <<SliceOf(PersonT), <<"(">> \o kName \o <<":", DQ, "a", DQ, ";", ";", ")">>>>,
     <<PersonT, <<"{", ",", "}">>>>,
     <<PersonT, <<"{", ";", "}">>>>}

StrayDocs ==
    {[form |-> "stray", type |-> c[1], text |-> c[2], braces |-> b] :
        c \in StrayTexts, b \in BOOLEAN}

TextDocs ==
    UnknownDocs \cup CutDocs \cup BoolDocs \cup SentinelDocs \cup RefillDocs
    \cup StrayDocs

\* the type of the variable the texts of a document are decoded into
docType(d) ==
    CASE d.form = "unknown" -> PersonT
      [] d.form = "cut" -> d.type
      [] d.form = "bool" -> IF d.table THEN SliceOf(FlagT) ELSE FlagT
      [] d.form = "sentinel" -> MapStringInterface
      [] d.form = "refill" -> SliceOf(PersonT)
      [] d.form = "stray" -> d.type

\* what the variable holds before the texts of a document are decoded into it
docDest(d) ==
    IF d.form = "refill" THEN SliceV(d.held) ELSE Zero(docType(d))

\* the pairs of a sentinel document with the right-hand side rhs for count
sentinelText(d, rhs) ==
    IF d.terminated THEN writeTerminated(d.before \o <<<<kCount, rhs>>>>)
    ELSE writeSpaced(d.before \o <<<<kCount, rhs>>>>)

underRoot(text, braces) ==
    IF braces THEN <<"{">> \o text \o <<"}">> ELSE text

\* the texts of a document: with the extra pair, terminated and spaced, and
\* without it; the text cut short; the token in its place
docTexts(d) ==
    CASE d.form = "unknown" ->
           <<writeTerminated(withExtra(d)), writeSpaced(withExtra(d)),
             writeTerminated(d.pairs)>>
      [] d.form = "cut" -> <<SubSeq(d.full, 1, d.keep)>>
      [] d.form = "bool" ->
           IF d.table
           THEN <<writeTable([form |-> "table", header |-> <<kName, kActive>>,
                              rows |-> <<<<StringV(sJohn), Raw(d.tok)>>>>,
                              spaced |-> FALSE])>>
           ELSE <<writeTerminated(<<<<kName, StringV(sJohn)>>,
                                    <<kActive, Raw(d.tok)>>>>)>>
      [] d.form = "sentinel" ->
           <<sentinelText(d, Raw(<<BS, "0">>)), sentinelText(d, NoCell)>>
      [] d.form = "refill" -> <<underRoot(d.text, d.braces)>>
      [] d.form = "stray" -> <<underRoot(d.text, d.braces)>>

\* err := Unmarshal(text, decoded) with the variable itself, and
\* err := Unmarshal(text, nilPointer) with a nil pointer to its type
DoUnmarshalNoTarget ==
    /\ inbox # <<>>
    /\ \E byValue \in BOOLEAN :
           LET at == IF byValue THEN gotype ELSE PtrTo(gotype)
               v == IF byValue THEN dest ELSE NilPtr
           IN  log' = Append(log,
                             Bind(Unmarshal(Head(inbox), at, v), LAMBDA r :
                                 CallAt(IF byValue THEN "UnmarshalByValue"
                                        ELSE "UnmarshalNil",
                                        Head(inbox), r.st, r.val,
                                        IF at[1] # "ptr" \/ v[2] = <<>> THEN <<>>
                                        ELSE rootCursor(Head(inbox), at[2])
                                             \o <<r.pos>>)))
    /\ inbox' = Tail(inbox)
    /\ UNCHANGED <<gotype, value, doc, dest>>

InitText ==
    \E d \in TextDocs :
        /\ gotype = docType(d)
        /\ value = <<>>
        /\ doc = d
        /\ inbox = docTexts(d)
        /\ dest = docDest(d)
        /\ log = <<>>

NextText == DoUnmarshal \/ DoUnmarshalNoTarget

SpecText == InitText /\ [][NextText]_vars

-----------------------------------------------------------------------------
(* Properties *)

\* the Unmarshal calls made so far, as indices of the log
Decoded == {i \in 1..Len(log) : log[i].fn = "Unmarshal"}

\* C1: round trip of a record: Unmarshal of the text Marshal wrote for a
\* value of a record type, into a fresh variable of the type, succeeds and
\* leaves the variable equal to the value
RecordRoundTrip ==
    \A i \in Decoded :
        (gotype[1] = "struct" /\ log[1].fn = "Marshal")
            => (log[i].st = "ok" /\ log[i].val = value)

\* the type has exported string and int fields only
isFlatRecord(t) ==
    /\ t[1] = "struct"
    /\ \A j \in 1..Len(t[2]) :
           FieldIsExported(t[2][j]) /\ t[2][j][3] \in {StringT, IntT}

\* C2: round trip through the table form: Unmarshal of the text Marshal wrote
\* for a non-empty sequence of records with string and int fields succeeds,
\* yields as many elements, and element n equals the n-th record
TableRoundTrip ==
    \A i \in Decoded :
        (/\ gotype[1] = "slice"
         /\ isFlatRecord(gotype[2])
         /\ Len(value[2]) > 0
         /\ log[1].fn = "Marshal")
            => /\ log[i].st = "ok"
               /\ Len(log[i].val[2]) = Len(value[2])
               /\ \A n \in 1..Len(value[2]) : log[i].val[2][n] = value[2][n]

\* C3: a text that is one unkeyed quoted string, {"s"}, decoded into a string
\* variable, succeeds and sets the variable to s
RootRawString ==
    \A i \in Decoded :
        (/\ gotype = StringT
         /\ log[i].data = <<"{", DQ>> \o value[2] \o <<DQ, "}">>)
            => (log[i].st = "ok" /\ log[i].val = value)

\* C4: the text Marshal writes for a sequence that is not of records,
\* {[v1,...,vn]}, decoded into a variable of the sequence type, succeeds and
\* yields n elements
RootRawList ==
    \A i \in Decoded :
        (/\ gotype[1] = "slice"
         /\ gotype[2][1] # "struct"
         /\ log[1].fn = "Marshal"
         /\ log[1].data[2] = "[")
            => (log[i].st = "ok" /\ Len(log[i].val[2]) = Len(value[2]))

\* C5: a table under the root, {(header:row1;...;rowN;)}, decoded into a
\* sequence of records, succeeds and yields N elements; under the header
\* name,age,addr element n holds the three cells of a full row n
BareTableRoot ==
    \A i \in Decoded :
        doc.form = "table"
            => /\ log[i].st = "ok"
               /\ Len(log[i].val[2]) = Len(doc.rows)
               /\ \A n \in 1..Len(doc.rows) :
                      (/\ doc.header = <<kName, kAge, kAddr>>
                       /\ Len(doc.rows[n]) = 3
                       /\ \A c \in 1..3 : doc.rows[n][c] # NoCell)
                          => log[i].val[2][n] = StructV(doc.rows[n])

\* C5 happened: a table of MaxRows full rows was decoded
BareTableRootDecoded ==
    /\ doc.form = "table"
    /\ doc.header = <<kName, kAge, kAddr>>
    /\ Len(doc.rows) = MaxRows
    /\ \A n \in 1..Len(doc.rows) :
           Len(doc.rows[n]) = 3 /\ \A c \in 1..3 : doc.rows[n][c] # NoCell
    /\ Decoded # {}
    /\ \A i \in Decoded : log[i].st = "ok" /\ Len(log[i].val[2]) = MaxRows

\* the cells of the row written under the header name that is the key of the
\* field, nothing written in them excepted
cellsFor(f, header, row) ==
    {c \in 1..Len(row) :
        c <= Len(header) /\ header[c] = FieldKey(f) /\ row[c] # NoCell}

\* C6: cells go to fields by position: in every row the field whose key is
\* header[c] holds cell c; a cell after the last header name or under a header
\* name that is no field's key is dropped without an error; a field whose cell
\* is empty or missing holds its zero value
TablePositional ==
    \A i \in Decoded :
        doc.form = "table"
            => /\ log[i].st = "ok"
               /\ Len(log[i].val[2]) = Len(doc.rows)
               /\ \A n \in 1..Len(doc.rows) :
                      \A j \in 1..Len(gotype[2][2]) :
                          LET hits == cellsFor(gotype[2][2][j], doc.header,
                                               doc.rows[n])
                          IN  IF hits = {}
                              THEN log[i].val[2][n][2][j]
                                       = Zero(gotype[2][2][j][3])
                              ELSE \A c \in hits :
                                       log[i].val[2][n][2][j] = doc.rows[n][c]

\* C6 happened: a row with a cell under a header name that is no field's
\* key, a cell after the last header name, an empty cell and no cell for addr
\* was decoded
TablePositionalDecoded ==
    /\ doc.form = "table"
    /\ doc.header = <<kName, kZip, kAge>>
    /\ \E n \in 1..Len(doc.rows) :
           /\ Len(doc.rows[n]) = 4
           /\ doc.rows[n][2] # NoCell
           /\ doc.rows[n][3] = NoCell
    /\ \E i \in Decoded : log[i].st = "ok"

\* C7: the compact text of a non-empty sequence of records is (, the keys of
\* the exported fields in declaration order separated by commas, a colon, for
\* each record its cells in that order separated by commas and ended by a
\* semicolon, and ); an empty string is written "" and a zero number 0
TableEncodeShape ==
    \A i \in 1..Len(log) :
        (/\ log[i].fn = "Marshal"
         /\ gotype[1] = "slice"
         /\ gotype[2][1] = "struct"
         /\ Len(value[2]) > 0)
            => LET fields == gotype[2][2]
                   idx == SelectSeq([j \in 1..Len(fields) |-> j],
                                    LAMBDA j : FieldIsExported(fields[j]))
                   cell(v) == IF v[1] = "string" THEN Quote(v[2])
                              ELSE IF v[1] = "int" THEN FormatInt(v[2])
                              ELSE encodeTableCell(v)
                   row(r) == joinWith([k \in 1..Len(idx) |-> cell(r[2][idx[k]])],
                                      <<",">>) \o <<";">>
               IN  /\ log[i].st = "ok"
                   /\ log[i].data =
                          <<"{", "(">>
                          \o joinWith([k \in 1..Len(idx) |->
                                          FieldKey(fields[idx[k]])], <<",">>)
                          \o <<":">>
                          \o Concat([n \in 1..Len(value[2]) |-> row(value[2][n])])
                          \o <<")", "}">>

\* C8: a text in which a key is written with an empty right-hand side and the
\* same text without the key decode to equal records, in which the field of
\* the key holds its zero value
GroundingEquivalence ==
    (doc.form = "pairs" /\ Len(log) = 4)
        => /\ \A i \in 1..4 : log[i].st = "ok"
           /\ log[1].val = log[3].val
           /\ log[2].val = log[4].val
           /\ \A k \in 1..Len(doc.pairs) :
                  ~isWritten(doc.pairs[k])
                      => \A i \in 1..4 :
                             \A j \in 1..Len(PersonT[2]) :
                                 FieldKey(PersonT[2][j]) = doc.pairs[k][1]
                                     => log[i].val[2][j] = Zero(PersonT[2][j][3])

\* C9: the text in which the pairs are separated by whitespace only and the
\* text in which every pair is terminated by a semicolon both decode without
\* an error, to equal records
OptionalTerminators ==
    (doc.form = "pairs" /\ Len(log) >= 2)
        => /\ log[1].st = "ok"
           /\ log[2].st = "ok"
           /\ log[1].val = log[2].val

\* the keys of the entries of the root: of a record, of a mapping
rootKeys(t, v) ==
    IF t[1] = "struct"
    THEN {FieldKey(t[2][j]) : j \in {k \in 1..Len(t[2]) : FieldIsExported(t[2][k])}}
    ELSE {v[2][j][1] : j \in 1..Len(v[2])}

\* C10: MarshalBeautify of a record or a mapping writes every entry of the
\* root on a line of its own behind two spaces: a newline, two spaces, the
\* key and =
RootIndentation ==
    \A i \in 1..Len(log) :
        (log[i].fn = "MarshalBeautify" /\ gotype[1] \in {"struct", "map"})
            => /\ log[i].st = "ok"
               /\ \A key \in rootKeys(gotype, value) :
                      Contains(log[i].data, <<LF, SP, SP>> \o key \o <<"=">>)

\* the cells of the exported fields of a record, as a table row holds them
rowCells(fields, r) ==
    LET idx == SelectSeq([j \in 1..Len(fields) |-> j],
                         LAMBDA j : FieldIsExported(fields[j]))
    IN  joinWith([k \in 1..Len(idx) |-> encodeTableCell(r[2][idx[k]])], <<",">>)

\* C11: MarshalBeautify of a non-empty sequence of records writes the header
\* (k1,...,kn: and a newline, then every row on a line of its own behind two
\* spaces and ended by a semicolon, then ) on a line of its own
TableBeautifyLayout ==
    \A i \in 1..Len(log) :
        (/\ log[i].fn = "MarshalBeautify"
         /\ gotype[1] = "slice"
         /\ gotype[2][1] = "struct"
         /\ Len(value[2]) > 0)
            => /\ log[i].st = "ok"
               /\ Contains(log[i].data,
                           <<"(">> \o joinComma(tableHeaders(gotype[2][2]))
                           \o <<":", LF>>
                           \o Concat([n \in 1..Len(value[2]) |->
                                         <<SP, SP>>
                                         \o rowCells(gotype[2][2], value[2][n])
                                         \o <<";", LF>>])
                           \o <<")">>)

\* the least element of a set of positions, or 0 when there is none
firstOf(S) == IF S = {} THEN 0 ELSE CHOOSE j \in S : \A k \in S : j <= k

\* the number of backslashes directly before byte j, counted back to byte i
backslashRun(data, i, j) ==
    Cardinality({k \in i..(j - 1) : \A m \in k..(j - 1) : data[m] = BS})

\* the last byte of the string literal that opens at byte q: the closing
\* triple quote of a triple-quoted one, else the first double quote that no
\* backslash escapes; the end of the text when it is never closed
literalEnd(data, q) ==
    IF q + 2 <= Len(data) /\ data[q + 1] = DQ /\ data[q + 2] = DQ
    THEN Bind(firstOf({j \in (q + 3)..(Len(data) - 2) :
                          data[j] = DQ /\ data[j + 1] = DQ /\ data[j + 2] = DQ}),
              LAMBDA j : IF j = 0 THEN Len(data) ELSE j + 2)
    ELSE Bind(firstOf({j \in (q + 1)..Len(data) :
                          data[j] = DQ /\ backslashRun(data, q + 1, j) % 2 = 0}),
              LAMBDA j : IF j = 0 THEN Len(data) ELSE j)

\* the string literals of a text from byte i on, as <<first byte, last byte>>
RECURSIVE literalSpans(_, _)
literalSpans(data, i) ==
    Bind(firstOf({j \in i..Len(data) : data[j] = DQ}), LAMBDA q :
        IF q = 0 THEN {}
        ELSE Bind(literalEnd(data, q), LAMBDA e :
                 {<<q, e>>} \cup literalSpans(data, e + 1)))

\* the bytes of a text that lie outside its string literals
outside(data) ==
    Bind(literalSpans(data, 1), LAMBDA spans :
        {i \in 1..Len(data) : \A sp \in spans : i < sp[1] \/ i > sp[2]})

\* the bytes of the text at the positions of the set, in order
pick(data, S) ==
    Bind(SelectSeq([i \in 1..Len(data) |-> i], LAMBDA i : i \in S), LAMBDA keep :
        [k \in 1..Len(keep) |-> data[keep[k]]])

\* the text without the spaces and newlines that lie outside string literals
stripLayout(data) ==
    Bind(outside(data), LAMBDA out :
        pick(data, {i \in 1..Len(data) : i \notin out \/ data[i] \notin {SP, LF}}))

\* the tokens of a text: stripLayout with every string literal cut down to
\* its first double quote
skeleton(data) ==
    Bind(outside(data), LAMBDA out :
        pick(data, {i \in 1..Len(data) :
                       \/ (i \in out /\ data[i] \notin {SP, LF})
                       \/ (i \notin out /\ data[i] = DQ
                           /\ (i = 1 \/ (i - 1) \in out))}))

\* the nesting depth of a skeleton after its byte i
depthAt(sk, i) ==
    Cardinality({k \in 1..i : sk[k] \in {"{", "[", "("}})
    - Cardinality({k \in 1..i : sk[k] \in {"}", "]", ")"}})

\* the bytes c of the skeleton that lie directly under the root braces
atRoot(sk, c) == {i \in 1..Len(sk) : sk[i] = c /\ depthAt(sk, i) = 1}

\* the value Marshal looks at: what a non-nil reference refers to
rootValue(v) == IF v[1] = "ptr" /\ v[2] # <<>> THEN v[2][1] ELSE v

\* the number of entries of a record or a mapping
entryCount(t, v) ==
    IF v[1] = "map" THEN Len(v[2])
    ELSE Cardinality({j \in 1..Len(v[2]) :
                         FieldIsExported((IF t[1] = "ptr" THEN t[2] ELSE t)[2][j])})

UsageError ==
    \A i \in 1..Len(log) :
        log[i].fn \in {"UnmarshalByValue", "UnmarshalNil"}
            => /\ log[i].st = "err"
               /\ log[i].cursor = <<>>
               /\ log[i].val = IF log[i].fn = "UnmarshalNil" THEN NilPtr ELSE dest

\* C13 happened: a text that decodes into the variable was handed to
\* Unmarshal with a nil pointer, and one with the variable itself
UsageErrorReturned ==
    /\ \E i \in 1..Len(log) :
           /\ log[i].fn = "UnmarshalNil"
           /\ Unmarshal(log[i].data, PtrTo(gotype), PtrV(dest)).st = "ok"
    /\ \E i \in 1..Len(log) :
           /\ log[i].fn = "UnmarshalByValue"
           /\ Unmarshal(log[i].data, PtrTo(gotype), PtrV(dest)).st = "ok"

\* a Marshal or MarshalBeautify that returned an error returned no bytes
MarshalErrorNoBytes ==
    \A i \in 1..Len(log) :
        (log[i].fn \in {"Marshal", "MarshalBeautify"} /\ log[i].st = "err")
            => log[i].data = <<>>

\* C14: no partial result: after an Unmarshal that returned an error the
\* variable holds the value it had before the call, and a Marshal that
\* returned an error returned no bytes
NoPartialResult ==
    /\ MarshalErrorNoBytes
    /\ \A i \in Decoded : log[i].st = "err" => log[i].val = dest

\* the text up to the value of the extra pair, every pair before it terminated
beforeExtra(d) ==
    LET ps == withExtra(d)
        k == CHOOSE n \in 1..Len(ps) : ps[n][1] = kZip
    IN  <<"{">> \o Concat([i \in 1..(k - 1) |-> writePair(ps[i]) \o <<";">>])
        \o kZip \o <<"=">>

\* C15: a pair whose key is the key of no field, with any well-formed value
\* as its right-hand side, is skipped: the text with the pair decodes without
\* an error to the record the text without it decodes to, and the skip ends
\* directly behind the value
UnknownKeysSkipped ==
    (/\ doc.form = "unknown"
     /\ Len(log) = 3
     /\ \A i \in 1..3 : log[i].fn = "Unmarshal")
        => /\ \A i \in 1..3 : log[i].st = "ok"
           /\ log[1].val = log[3].val
           /\ log[2].val = log[3].val
           /\ skipValue(log[1].data, Len(beforeExtra(doc)))
                  = Len(beforeExtra(doc)) + Len(doc.extra)

\* C16: a text that ends before the closing delimiter of a string, of a table
\* (in its header or in its rows) or of an object is an error: Unmarshal of a
\* complete text cut short returns an error
UnterminatedIsError ==
    \A i \in Decoded :
        (/\ doc.form = "cut"
         /\ doc.keep < Len(doc.full)
         /\ doc.type \in {PersonT, SliceOf(PersonT), MapStringInterface})
            => log[i].st = "err"

\* the text without the semicolons that stand, outside the string literals,
\* directly before a closing brace
dropClosingTerminators(data) ==
    Bind(outside(data), LAMBDA out :
        pick(data, {i \in 1..Len(data) :
                       ~(/\ i \in out
                         /\ data[i] = ";"
                         /\ i < Len(data)
                         /\ data[i + 1] = "}"
                         /\ (i + 1) \in out)}))

\* C17 as the specification states it: the text MarshalBeautify writes,
\* without the spaces and newlines outside its string literals, is the text
\* Marshal writes for the same value
ModesDifferInWhitespace ==
    \A i \in 1..Len(log) :
        (log[i].fn = "MarshalBeautify" /\ log[i].st = "ok")
            => stripLayout(log[i].data) = Marshal(gotype, value).data

\* C17: the text MarshalBeautify writes, without the spaces and newlines
\* outside its string literals and without the semicolon that ends the last
\* entry of every object, is the text Marshal writes for the same value
ModesDifferInLayout ==
    \A i \in 1..Len(log) :
        (log[i].fn = "MarshalBeautify" /\ log[i].st = "ok")
            => dropClosingTerminators(stripLayout(log[i].data))
                   = Marshal(gotype, value).data

\* C17 happened: MarshalBeautify wrote a record that holds a mapping with two
\* entries, one a string with a space in it
ModesCompared ==
    /\ gotype = ResponseT
    /\ Len(value[2][5][2]) = 2
    /\ \E i \in 1..Len(log) :
           /\ log[i].fn = "MarshalBeautify"
           /\ log[i].st = "ok"
           /\ Contains(log[i].data, sSpaced)

\* the positions the scanner operations and a decode of the variable leave
\* the parser at when they start at position p of the text
positionsFrom(data, p) ==
    {next(data, p), skipSpaces(data, p), readBareToken(data, p).pos,
     readUntilAny(data, p, {",", ":"}).pos,
     readUntilAny(data, p, {",", ";", ")"}).pos,
     parseStringValue(data, p).pos, parseString(data, p).pos,
     parseTripleString(data, p).pos, parseNumber(data, p).pos,
     parseBool(data, p).pos, skipValue(data, p),
     parseGenericValue(data, p).pos, decodeValue(data, p, gotype, dest).pos}

\* the steps of a cursor at which the position decreases
stepsBack(c) == {k \in 1..(Len(c) - 1) : c[k] > c[k + 1]}

\* C18 as the specification states it: during an Unmarshal the position of
\* the parser never decreases from one step to the next
CursorMonotone == \A i \in Decoded : stepsBack(log[i].cursor) = {}

\* C18: the position of the parser decreases in one step only: for a sequence
\* destination and a text that opens with { and no ( behind it, Unmarshal goes
\* back from behind the { to the {; every scanner operation and every decode,
\* from any position, ends at or after the position it started at
CursorBacksUpAtRootOnly ==
    \A i \in Decoded :
        /\ \A k \in stepsBack(log[i].cursor) :
               /\ gotype[1] = "slice"
               /\ k = 4
               /\ log[i].cursor[5] = log[i].cursor[2]
               /\ peek(log[i].data, log[i].cursor[5]) = "{"
               /\ peek(log[i].data, log[i].cursor[4]) # "("
        /\ \A p \in 0..Len(log[i].data) :
               \A q \in positionsFrom(log[i].data, p) : q >= p

\* C18 happened: a text with a space before its { was decoded into a
\* sequence, and the parser went back to the {
CursorBackedUp ==
    \E i \in Decoded :
        /\ stepsBack(log[i].cursor) # {}
        /\ log[i].cursor[2] > 0
        /\ log[i].cursor[Len(log[i].cursor)] >= log[i].cursor[2]

\* C19: the position of the parser is never below 0 and never above the
\* length of the source: not in Unmarshal, and not after any scanner
\* operation or decode from any position, the advances by three bytes over a
\* triple quote and by two over the sentinel included; at the end of the
\* source peek returns the byte 0 and next leaves the position where it is
CursorInBounds ==
    \A i \in Decoded :
        /\ \A k \in 1..Len(log[i].cursor) :
               log[i].cursor[k] \in 0..Len(log[i].data)
        /\ \A p \in 0..Len(log[i].data) :
               /\ \A q \in positionsFrom(log[i].data, p) :
                      q \in 0..Len(log[i].data)
               /\ Len(peekAhead(log[i].data, p, 3)) <= 3
        /\ peek(log[i].data, Len(log[i].data)) = NUL
        /\ next(log[i].data, Len(log[i].data)) = Len(log[i].data)

\* C19 happened: a text that ends inside the closing triple quote of a string
\* was decoded, and the parser stopped at the end of the text
CursorAtEnd ==
    \E i \in Decoded :
        /\ doc.form = "cut"
        /\ doc.keep >= 2
        /\ log[i].data[doc.keep] = DQ
        /\ log[i].data[doc.keep - 1] = DQ
        /\ Contains(log[i].data, <<DQ, DQ, DQ, "x">>)
        /\ log[i].st = "err"
        /\ log[i].cursor[Len(log[i].cursor)] = Len(log[i].data)

\* the boolean field of the record a boolean document was decoded into
activeOf(d, val) == IF d.table THEN val[2][1][2][2] ELSE val[2][2]

\* C20: a boolean field, as a field of a record or as a cell of a table,
\* takes the token true as true and the token false as false; with any other
\* token Unmarshal returns an error
BooleanTokensExact ==
    \A i \in Decoded :
        doc.form = "bool"
            => IF doc.tok = <<"t", "r", "u", "e">>
               THEN log[i].st = "ok" /\ activeOf(doc, log[i].val) = BoolV(TRUE)
               ELSE IF doc.tok = <<"f", "a", "l", "s", "e">>
               THEN log[i].st = "ok" /\ activeOf(doc, log[i].val) = BoolV(FALSE)
               ELSE log[i].st = "err"

\* the value a decoded mapping holds for key, or <<>> when it has none
stored(m, key) ==
    IF \E i \in 1..Len(m[2]) : m[2][i][1] = key
    THEN (CHOOSE pr \in Range(m[2]) : pr[1] = key)[2]
    ELSE <<>>

\* both texts of a sentinel document have been decoded
SentinelDecoded ==
    /\ doc.form = "sentinel"
    /\ Len(log) = 2
    /\ \A i \in 1..2 : log[i].fn = "Unmarshal"

\* C21: decoding k=\0 into a mapping of dynamically-typed values succeeds and
\* stores for k the no-value marker, which is not what the empty right-hand
\* side k= stores for the same key
SentinelDistinct ==
    SentinelDecoded
        => /\ log[1].st = "ok"
           /\ stored(log[1].val, kCount) = NilInterface
           /\ stored(log[1].val, kCount) # stored(log[2].val, kCount)

\* the sentinel is decoded without error and a nil interface is stored
SentinelStoresNil ==
    SentinelDecoded
        => /\ log[1].st = "ok"
           /\ stored(log[1].val, kCount) = NilInterface

\* a text has been decoded into a sequence of Person that held elements
Refilled ==
    {i \in Decoded : doc.form = "refill" /\ dest # SliceV(<<>>)}

\* C22: decoding the empty table () into a sequence of records succeeds and
\* leaves it an empty sequence whatever it held before the call, as decoding
\* a list or a table with rows leaves it with their elements only
EmptyTableClears ==
    \A i \in Refilled :
        log[i].st = "ok" /\ log[i].val = SliceV(doc.elems)

\* a list, and a table with rows, replace what the sequence held
RowsReplaceHeld ==
    \A i \in Refilled :
        doc.text[2] # ")" /\ doc.text[2] # SP
            => (log[i].st = "ok" /\ log[i].val = SliceV(doc.elems))

\* the empty table decodes without error and the sequence holds what it held
EmptyTableKeepsHeld ==
    \A i \in Refilled :
        (doc.text[2] = ")" \/ doc.text[2] = SP)
            => (log[i].st = "ok" /\ log[i].val = dest)

\* the number of commas of a skeleton strictly between its bytes a and b
commasBetween(sk, a, b) ==
    Cardinality({k \in (a + 1)..(b - 1) : sk[k] = ","})

\* the byte before a row of a table skeleton that ends at the semicolon e: the
\* colon of the header or the semicolon of the row before
rowStart(sk, colon, e) ==
    CHOOSE s \in colon..(e - 1) :
        /\ s = colon \/ sk[s] = ";"
        /\ \A k \in (s + 1)..(e - 1) : sk[k] # ";"

\* every row of the table of a skeleton has as many cells as its header has
\* names
cellsMatchHeader(sk) ==
    Bind(firstOf({i \in 1..Len(sk) : sk[i] = ":"}), LAMBDA colon :
        /\ colon > 0
        /\ \A e \in {i \in (colon + 1)..Len(sk) : sk[i] = ";"} :
               commasBetween(sk, rowStart(sk, colon, e), e)
                   = commasBetween(sk, firstOf({i \in 1..Len(sk) : sk[i] = "("}),
                                   colon))

\* the table of a sequence of records without its layout: the keys of the
\* exported fields, and for every record the cells of its exported fields
alignedTable(fields, rows) ==
    <<"(">> \o joinComma(tableHeaders(fields)) \o <<":">>
    \o Concat([n \in 1..Len(rows) |-> rowCells(fields, rows[n]) \o <<";">>])
    \o <<")">>

\* the calls that encoded a non-empty sequence of records
TablesWritten ==
    {i \in 1..Len(log) :
        /\ log[i].fn \in {"Marshal", "MarshalBeautify"}
        /\ gotype[1] = "slice"
        /\ gotype[2][1] = "struct"
        /\ Len(value[2]) > 0}

\* C23: table rows align with the header: wherever the unexported fields of the
\* record type are declared, every row the table encoder writes has as many
\* cells as the header has names, and cell i is the value of the field named
\* header[i]; unexported fields add no header name, no cell and no separator
TableRowsAligned ==
    \A i \in TablesWritten :
        /\ log[i].st = "ok"
        /\ cellsMatchHeader(skeleton(log[i].data))
        /\ Contains(stripLayout(log[i].data),
                    alignedTable(gotype[2][2], value[2]))

\* rows align with the header for every record type whose first declared
\* field is exported
TableRowsAlignedExportedFirst ==
    \A i \in TablesWritten :
        FieldIsExported(gotype[2][2][1])
            => /\ log[i].st = "ok"
               /\ cellsMatchHeader(skeleton(log[i].data))
               /\ Contains(stripLayout(log[i].data),
                           alignedTable(gotype[2][2], value[2]))

\* C24: Unmarshal terminates on every text and every destination: every
\* iteration of the object, mapping, list, table-header and table-row loops
\* moves the cursor on or leaves the loop, also at a delimiter the loop does
\* not expect and at the end of the input
UnmarshalTerminates ==
    \A i \in Decoded : log[i].st # "hang"

\* the key loop of a record moves on or leaves at every byte: Unmarshal into
\* a record returns for every text
RecordLoopTerminates ==
    \A i \in Decoded : gotype[1] = "struct" => log[i].st # "hang"

=============================================================================
